---- MODULE Spec2Model ----
(***************************************************************************)
(* Model of OdooProxyApiClient (src/src/odxproxy-client.ts): the           *)
(* constructor and the forwardToOdoo operation, one action per             *)
(* synchronous run of code between two suspension points (await).          *)
(*                                                                         *)
(* Strings that the code inspects character by character (baseUrl) are     *)
(* sequences of one-character strings.  A response body is a sequence of   *)
(* lexical units (tokens); JSONparse is a recursive-descent parser over    *)
(* them.  Messages are sequences of string fragments, concatenated as the  *)
(* template literals of the source concatenate them.                       *)
(***************************************************************************)
EXTENDS Integers, Sequences, FiniteSets, TLC

VARIABLES
    ambientFetch,   \* whether globalThis.fetch exists in this environment
    client,         \* the OdooProxyApiClient instance (or the failed construction)
    calls           \* one record per invocation of forwardToOdoo

vars == <<ambientFetch, client, calls>>

-----------------------------------------------------------------------------
(* Bounds *)

\* longest baseUrl supplied to the constructor
MaxUrlLen == 3
\* number of invocations of forwardToOdoo that may be in flight together
NumCalls == 2

-----------------------------------------------------------------------------
(* Strings *)

UrlChars == {"h", "/"}

\* all strings over UrlChars of length 0..n
StringsUpTo(n) == UNION {[1..k -> UrlChars] : k \in 0..n}

\* An optional string-valued configuration property: absent (undefined) or a string.
Missing == [present |-> FALSE, val |-> <<>>]
Given(s) == [present |-> TRUE, val |-> s]

\* JavaScript truthiness of an optional string: undefined and "" are falsy.
Truthy(o) == o.present /\ Len(o.val) > 0

\* The places where the pattern /\/$/ matches in s: a "/" followed by the end
\* of the input (no m flag, so $ is the end of the string only).
SlashAtEndMatches(s) == {i \in 1..Len(s) : s[i] = "/" /\ i = Len(s)}

\* a mutant of the pattern: /\/+$/, which matches the whole run of trailing slashes
StripAllTrailingSlashes(s) ==
    LET keep == {i \in 0..Len(s) : \A j \in (i+1)..Len(s) : s[j] = "/"}
        n == CHOOSE i \in keep : \A j \in keep : i <= j
    IN SubSeq(s, 1, n)

\* config.baseUrl.replace(/\/$/, ''): the first match, if any, is replaced by ''.
StripTrailingSlash(s) ==
    IF SlashAtEndMatches(s) = {} THEN s
    ELSE LET i == CHOOSE m \in SlashAtEndMatches(s) :
                      \A k \in SlashAtEndMatches(s) : m <= k
         IN SubSeq(s, 1, i - 1) \o SubSeq(s, i + 1, Len(s))

-----------------------------------------------------------------------------
(* Construction *)

\* The configurations handed to the constructor.
Configs ==
    [baseUrl : {Missing} \cup {Given(s) : s \in StringsUpTo(MaxUrlLen)},
     apiKey  : {Missing, Given(<<>>), Given(<<"k">>)},
     fetch   : BOOLEAN]

NoConfig == [baseUrl |-> Missing, apiKey |-> Missing, fetch |-> FALSE]

\* No constructor call has been made yet.
NoClient ==
    [state |-> "none", config |-> NoConfig, baseUrl |-> <<>>, apiKey |-> <<>>,
     fetchFn |-> "none", error |-> <<>>]

\* new OdooProxyApiClient(config): the instance, or the construction error.
\* `config` is kept in the result as a record of what was supplied.
Constructed(config, ambient) ==
    IF ~Truthy(config.baseUrl) \/ ~Truthy(config.apiKey)
    THEN [NoClient EXCEPT !.state = "failed", !.config = config,
            !.error = <<"OdooProxyApiClient requires baseUrl and apiKey in configuration.">>]
    ELSE LET fetchFn == IF config.fetch THEN "config.fetch"
                        ELSE IF ambient THEN "globalThis.fetch" ELSE "none"
         IN IF fetchFn = "none"
            THEN [NoClient EXCEPT !.state = "failed", !.config = config,
                    !.error = <<"Fetch API is not available. Please provide a polyfill or ensure you are in a supported environment.">>]
            ELSE [state |-> "ok", config |-> config,
                  baseUrl |-> StripTrailingSlash(config.baseUrl.val),
                  apiKey |-> config.apiKey.val, fetchFn |-> fetchFn, error |-> <<>>]

-----------------------------------------------------------------------------
(* Response bodies and JSON *)

\* Lexical units of a body text.
P(s) == [c |-> "punct", s |-> s]
S(s) == [c |-> "str", s |-> s]
N(s) == [c |-> "num", s |-> s]
L(s) == [c |-> "lit", s |-> s]
W == [c |-> "ws", s |-> " "]
B(s) == [c |-> "bad", s |-> s]

\* JavaScript values produced by JSON.parse.  kids holds the elements of an
\* array (k = "") or the own properties of an object, in insertion order.
JNull == [t |-> "null", s |-> "", kids |-> <<>>]
JUndefined == [t |-> "undefined", s |-> "", kids |-> <<>>]
JStr(s) == [t |-> "string", s |-> s, kids |-> <<>>]
JNum(s) == [t |-> "number", s |-> s, kids |-> <<>>]
JBool(s) == [t |-> "boolean", s |-> s, kids |-> <<>>]
JArr(kids) == [t |-> "array", s |-> "", kids |-> kids]
JObj(kids) == [t |-> "object", s |-> "", kids |-> kids]

\* typeof v
TypeOf(v) ==
    IF v.t \in {"null", "array", "object"} THEN "object" ELSE v.t

\* 'key' in v, for v an object or an array (array keys are indices and length)
HasKey(v, key) ==
    /\ v.t = "object"
    /\ \E i \in 1..Len(v.kids) : v.kids[i].k = key

\* v.key, for v not null and not undefined
Get(v, key) ==
    IF HasKey(v, key)
    THEN v.kids[CHOOSE i \in 1..Len(v.kids) : v.kids[i].k = key].v
    ELSE JUndefined

\* obj[key] = val as JSON.parse defines properties: a repeated key keeps its
\* place and takes the later value.
SetMember(kids, key, val) ==
    IF \E i \in 1..Len(kids) : kids[i].k = key
    THEN [i \in 1..Len(kids) |->
             IF kids[i].k = key THEN [k |-> key, v |-> val] ELSE kids[i]]
    ELSE Append(kids, [k |-> key, v |-> val])

ParseFail == [ok |-> FALSE, val |-> JNull, next |-> 0]
ParseOk(v, n) == [ok |-> TRUE, val |-> v, next |-> n]

\* index of the first unit at or after i that is not whitespace
RECURSIVE SkipWs(_, _)
SkipWs(text, i) ==
    IF i <= Len(text) /\ text[i].c = "ws" THEN SkipWs(text, i + 1) ELSE i

IsPunct(text, i, s) == i <= Len(text) /\ text[i] = P(s)

RECURSIVE ParseValue(_, _), ParseElements(_, _, _, _), ParseMembers(_, _, _, _)

\* the elements of an array, after "[" (first) or after "," (not first)
ParseElements(text, i, acc, first) ==
    LET j == SkipWs(text, i) IN
    IF first /\ IsPunct(text, j, "]") THEN ParseOk(JArr(acc), j + 1)
    ELSE LET r == ParseValue(text, j) IN
         IF ~r.ok THEN ParseFail
         ELSE LET k == SkipWs(text, r.next)
                  acc2 == Append(acc, [k |-> "", v |-> r.val])
              IN IF IsPunct(text, k, ",") THEN ParseElements(text, k + 1, acc2, FALSE)
                 ELSE IF IsPunct(text, k, "]") THEN ParseOk(JArr(acc2), k + 1)
                 ELSE ParseFail

\* the members of an object, after "{" (first) or after "," (not first)
ParseMembers(text, i, acc, first) ==
    LET j == SkipWs(text, i) IN
    IF first /\ IsPunct(text, j, "}") THEN ParseOk(JObj(acc), j + 1)
    ELSE IF ~(j <= Len(text) /\ text[j].c = "str") THEN ParseFail
    ELSE LET c == SkipWs(text, j + 1) IN
         IF ~IsPunct(text, c, ":") THEN ParseFail
         ELSE LET r == ParseValue(text, c + 1) IN
              IF ~r.ok THEN ParseFail
              ELSE LET k == SkipWs(text, r.next)
                       acc2 == SetMember(acc, text[j].s, r.val)
                   IN IF IsPunct(text, k, ",") THEN ParseMembers(text, k + 1, acc2, FALSE)
                      ELSE IF IsPunct(text, k, "}") THEN ParseOk(JObj(acc2), k + 1)
                      ELSE ParseFail

ParseValue(text, i) ==
    LET j == SkipWs(text, i) IN
    IF j > Len(text) THEN ParseFail
    ELSE LET tok == text[j] IN
         CASE tok.c = "str" -> ParseOk(JStr(tok.s), j + 1)
           [] tok.c = "num" -> ParseOk(JNum(tok.s), j + 1)
           [] tok.c = "lit" /\ tok.s = "null" -> ParseOk(JNull, j + 1)
           [] tok.c = "lit" /\ tok.s \in {"true", "false"} -> ParseOk(JBool(tok.s), j + 1)
           [] tok = P("[") -> ParseElements(text, j + 1, <<>>, TRUE)
           [] tok = P("{") -> ParseMembers(text, j + 1, <<>>, TRUE)
           [] OTHER -> ParseFail

\* JSON.parse(text): one value, then nothing but whitespace; otherwise it
\* throws a SyntaxError (ok = FALSE), whose message names the failure.
JSONparse(text) ==
    LET r == ParseValue(text, 1) IN
    IF r.ok /\ SkipWs(text, r.next) > Len(text)
    THEN [ok |-> TRUE, val |-> r.val, message |-> <<>>]
    ELSE [ok |-> FALSE, val |-> JUndefined,
          message |-> IF Len(text) = 0 THEN <<"Unexpected end of JSON input">>
                      ELSE <<"Unexpected token in JSON">>]

\* Body texts, written unit by unit.
Obj(members) == <<P("{")>> \o members \o <<P("}")>>
Mem(key, val) == <<S(key), P(":")>> \o val
Comma == <<P(",")>>
TagV2 == Mem("jsonrpc", <<S("2.0")>>)
IdX == Mem("id", <<S("x")>>)
ResultArr == Mem("result", <<P("["), N("1"), P(","), N("2"), P("]")>>)
ErrorObj ==
    Mem("error", Obj(Mem("code", <<N("-32600")>>) \o Comma \o Mem("message", <<S("bad")>>)))

EmptyBody == <<>>

\* The bodies the transport's responses carry.
Bodies ==
    { EmptyBody,
      <<W>>,
      <<B("not"), W, B("json")>>,
      Obj(TagV2 \o Comma \o IdX \o Comma \o ResultArr),
      Obj(TagV2 \o Comma \o IdX \o Comma \o ErrorObj),
      Obj(TagV2 \o Comma \o IdX \o Comma \o ResultArr \o Comma \o ErrorObj),
      Obj(TagV2 \o Comma \o Mem("id", <<L("null")>>)),
      <<W>> \o Obj(TagV2 \o Comma \o IdX) \o <<W>>,
      Obj(ResultArr \o Comma \o IdX),
      Obj(TagV2 \o Comma \o ResultArr),
      Obj(Mem("jsonrpc", <<S("1.0")>>) \o Comma \o IdX),
      Obj(Mem("jsonrpc", <<N("2.0")>>) \o Comma \o IdX),
      Obj(Mem("jsonrpc", <<S("1.0")>>) \o Comma \o TagV2 \o Comma \o IdX),
      Obj(TagV2 \o Comma \o IdX \o Comma),
      <<P("{")>> \o TagV2 \o Comma \o IdX,
      Obj(TagV2 \o Comma \o IdX) \o <<B("x")>>,
      Obj(<<>>),
      <<L("null")>>,
      <<L("true")>>,
      <<N("1")>>,
      <<S("2.0")>>,
      <<P("["), N("1"), P(","), N("2"), P("]")>>,
      <<P("["), N("1"), P(","), P("]")>> }

-----------------------------------------------------------------------------
(* Requests, responses, thrown values *)

\* OdooProxyRequest values: the id, and a keyword mapping that is absent, holds
\* plain JSON data, or holds a BigInt (Record<string, any> admits one).
Requests == [id : {"a", "b"}, keyword : {"absent", "plain", "bigint"}]

\* JSON.stringify(request): the body text, or the TypeError it throws.
JSONstringify(request) ==
    IF request.keyword = "bigint"
    THEN [ok |-> FALSE, text |-> <<>>,
          message |-> <<"Do not know how to serialize a BigInt">>]
    ELSE [ok |-> TRUE,
          text |-> Obj(Mem("id", <<S(request.id)>>)
                       \o (IF request.keyword = "plain"
                           THEN Comma \o Mem("keyword", Obj(Mem("tz", <<S("UTC")>>)))
                           ELSE <<>>)),
          message |-> <<>>]

\* a mutant of the expected set: 404 is taken for a status of the contract
ExpectedWith404 == {200, 400, 401, 404, 500, 502, 504}
\* const expectedStatuses = [200, 400, 401, 500, 502, 504]
ExpectedStatuses == {200, 400, 401, 500, 502, 504}

\* Status codes the transport's responses carry.
Statuses == ExpectedStatuses \cup {204, 404, 503}

StatusTextOf(status) ==
    CASE status = 200 -> "OK"
      [] status = 204 -> "No Content"
      [] status = 404 -> "Not Found"
      [] OTHER -> ""

NoResponse == [present |-> FALSE, status |-> 0, statusText |-> "", body |-> <<>>]

Response(status, body) ==
    [present |-> TRUE, status |-> status, statusText |-> StatusTextOf(status),
     body |-> body]

Responses == {Response(st, b) : st \in Statuses, b \in Bodies}

\* What a rejected promise (or a throw) carries: an Error with a message, an
\* object without one, undefined or null.  The catch clauses type it `any`.
ErrorWith(message) == [t |-> "object", hasMessage |-> TRUE, message |-> message]
Thrown ==
    { ErrorWith(<<"Failed to fetch">>),
      [t |-> "object", hasMessage |-> FALSE, message |-> <<>>],
      [t |-> "undefined", hasMessage |-> FALSE, message |-> <<>>],
      [t |-> "null", hasMessage |-> FALSE, message |-> <<>>] }

\* nothing was thrown
NoThrow == [t |-> "none", hasMessage |-> FALSE, message |-> <<>>]

\* e.message throws a TypeError when e is undefined or null.
MessageReadThrows(e) == e.t \in {"undefined", "null"}

\* e.message ?? fallback, for e not undefined and not null
MessageOr(e, fallback) == IF e.hasMessage THEN e.message ELSE fallback

-----------------------------------------------------------------------------
(* Outcomes of forwardToOdoo *)

Undef == [def |-> FALSE, n |-> 0, s |-> ""]
DefNum(n) == [def |-> TRUE, n |-> n, s |-> ""]
DefStr(s) == [def |-> TRUE, n |-> 0, s |-> s]

Pending ==
    [kind |-> "pending", name |-> "", message |-> <<>>, value |-> JUndefined,
     status |-> Undef, statusText |-> Undef, response |-> NoResponse]

\* return responseData
Returned(responseData) == [Pending EXCEPT !.kind = "returned", !.value = responseData]

\* new OdooProxyApiHttpError(message, response), thrown
OdooProxyApiHttpError(message, response) ==
    [Pending EXCEPT !.kind = "thrown", !.name = "OdooProxyApiHttpError",
                    !.message = message,
                    !.status = IF response.present THEN DefNum(response.status) ELSE Undef,
                    !.statusText = IF response.present THEN DefStr(response.statusText)
                                   ELSE Undef,
                    !.response = response]

\* new OdooProxyApiFormatError(message), thrown
OdooProxyApiFormatError(message) ==
    [Pending EXCEPT !.kind = "thrown", !.name = "OdooProxyApiFormatError",
                    !.message = message]

\* the TypeError of reading a property of undefined, thrown out of a catch clause
PropertyReadTypeError ==
    [Pending EXCEPT !.kind = "thrown", !.name = "TypeError",
                    !.message = <<"Cannot read properties of undefined (reading 'message')">>]

\* catch (networkError) { throw new OdooProxyApiHttpError(..., undefined) }
CatchNetworkError(networkError) ==
    IF MessageReadThrows(networkError) THEN PropertyReadTypeError
    ELSE OdooProxyApiHttpError(
             <<"Network error calling Odoo Proxy API: ">>
                 \o MessageOr(networkError, <<"Unknown network error">>),
             NoResponse)

\* a mutant of the parse-failure handler: the caught error's message is dropped
CatchParseErrorNoMessage(parseError) ==
    IF MessageReadThrows(parseError) THEN PropertyReadTypeError
    ELSE OdooProxyApiFormatError(<<"Failed to parse JSON response from Odoo Proxy API">>)

\* catch (parseError) { throw new OdooProxyApiFormatError(...) }
CatchParseError(parseError) ==
    IF MessageReadThrows(parseError) THEN PropertyReadTypeError
    ELSE OdooProxyApiFormatError(
             <<"Failed to parse JSON response from Odoo Proxy API: ">>
                 \o MessageOr(parseError, <<"Unknown parsing error">>))

\* a mutant of the validation: an envelope carrying an error is rejected
ValidEnvelopeNoError(responseData) ==
    ~( \/ TypeOf(responseData) # "object"
       \/ responseData = JNull
       \/ Get(responseData, "jsonrpc") # JStr("2.0")
       \/ ~HasKey(responseData, "id")
       \/ HasKey(responseData, "error") )

\* a mutant of the validation: the id key is not required
ValidEnvelopeNoId(responseData) ==
    ~( \/ TypeOf(responseData) # "object"
       \/ responseData = JNull
       \/ Get(responseData, "jsonrpc") # JStr("2.0") )

\* The negation of the condition under which the envelope is rejected.
ValidEnvelope(responseData) ==
    ~( \/ TypeOf(responseData) # "object"
       \/ responseData = JNull
       \/ Get(responseData, "jsonrpc") # JStr("2.0")
       \/ ~HasKey(responseData, "id") )

\* text.substring(0, 200) and the "..." that marks a cut; a text's length is
\* counted in its units.
DiagMaxChars == 200
DiagSnippet(text) ==
    [i \in 1..(IF Len(text) > DiagMaxChars THEN DiagMaxChars ELSE Len(text)) |-> text[i].s]
        \o (IF Len(text) > DiagMaxChars THEN <<"...">> ELSE <<>>)

\* `Status: ${response.status} ${response.statusText}`
StatusLine(response) ==
    <<"Status: ", ToString(response.status), " ", response.statusText>>

\* The error thrown for an unexpected status; text is the body read for
\* diagnostics, or <<>> when the read failed or the body is empty.
UnexpectedStatusError(response, text) ==
    OdooProxyApiHttpError(
        <<"Unexpected HTTP response from Odoo Proxy API. ">> \o StatusLine(response)
            \o (IF Len(text) > 0 THEN <<"\nResponse Body: ">> \o DiagSnippet(text) ELSE <<>>),
        response)

\* What the code does with the body text of a response with an expected
\* status: the empty check, JSON.parse, the validation, the return.
\* parsed counts the calls of JSON.parse.
Interpret(text) ==
    IF Len(text) = 0
    THEN [outcome |-> CatchParseError(ErrorWith(<<"Received empty response body">>)),
          parsed |-> 0]
    ELSE LET p == JSONparse(text) IN
         IF ~p.ok
         THEN [outcome |-> CatchParseError(ErrorWith(p.message)), parsed |-> 1]
         ELSE IF ~ValidEnvelope(p.val)
         THEN [outcome |-> OdooProxyApiFormatError(
                   <<"Invalid JSON-RPC 2.0 response format received from Odoo Proxy API.">>),
               parsed |-> 1]
         ELSE [outcome |-> Returned(p.val), parsed |-> 1]

-----------------------------------------------------------------------------
(* The state machine *)

NoRequest == [id |-> "", keyword |-> "absent"]

\* An invocation that has not started.  fetchLog records every call of
\* this.fetchFn; textReads and parses count the calls of response.text() and
\* of JSON.parse; thrown records what the transport or the body read failed
\* with, if it failed.
IdleCall ==
    [pc |-> "idle", request |-> NoRequest, fetchLog |-> <<>>, response |-> NoResponse,
     thrown |-> NoThrow, textReads |-> 0, parses |-> 0, outcome |-> Pending]

ApiPath == <<"/", "a", "p", "i", "/", "o", "d", "o", "o">>

\* const url = `${this.baseUrl}/api/odoo`
UrlOf(c) == c.baseUrl \o ApiPath

\* the headers object
HeadersOf(c) ==
    [ContentType |-> "application/json", Accept |-> "application/json",
     apikey |-> c.apiKey]

\* a mutant of the transport call: a second attempt follows the first
FetchCalledTwice(log, c, body) ==
    log \o << [url |-> UrlOf(c), method |-> "POST", headers |-> HeadersOf(c), body |-> body],
              [url |-> UrlOf(c), method |-> "POST", headers |-> HeadersOf(c), body |-> body] >>

\* this.fetchFn(url, {method: 'POST', headers, body}) is called: the log grows by one
FetchCalled(log, c, body) ==
    Append(log, [url |-> UrlOf(c), method |-> "POST", headers |-> HeadersOf(c),
                 body |-> body])

\* a mutant: the response is kept in one field shared by all invocations
SharedResponse(cs, i) == cs[1].response

\* the local variable `response` of invocation i
ResponseOf(cs, i) == cs[i].response

\* createOdooProxyClient(config) / new OdooProxyApiClient(config)
Construct(config) ==
    /\ client.state = "none"
    /\ client' = Constructed(config, ambientFetch)
    /\ UNCHANGED <<ambientFetch, calls>>

\* forwardToOdoo(request) up to the first await: the URL and headers are built,
\* the request is serialized and the transport is called.  A throw of
\* JSON.stringify is caught by the catch clause around the transport call.
Invoke(i, request) ==
    /\ client.state = "ok"
    /\ calls[i].pc = "idle"
    /\ LET body == JSONstringify(request) IN
       calls' = [calls EXCEPT ![i] =
           IF body.ok
           THEN [@ EXCEPT !.pc = "awaitFetch", !.request = request,
                          !.fetchLog = FetchCalled(@, client, body.text)]
           ELSE [@ EXCEPT !.pc = "done", !.request = request,
                          !.outcome = CatchNetworkError(ErrorWith(body.message))]]
    /\ UNCHANGED <<ambientFetch, client>>

\* The transport's promise is fulfilled with a response: the status is
\* classified and, on either branch, response.text() is called.
FetchFulfilled(i, response) ==
    /\ calls[i].pc = "awaitFetch"
    /\ calls' = [calls EXCEPT ![i] =
           [@ EXCEPT !.pc = IF response.status \in ExpectedStatuses
                            THEN "awaitText" ELSE "awaitDiagText",
                     !.response = response,
                     !.textReads = @ + 1]]
    /\ UNCHANGED <<ambientFetch, client>>

\* The transport throws or its promise is rejected: no response exists.
FetchRejected(i, networkError) ==
    /\ calls[i].pc = "awaitFetch"
    /\ calls' = [calls EXCEPT ![i] =
           [@ EXCEPT !.pc = "done", !.thrown = networkError,
                     !.outcome = CatchNetworkError(networkError)]]
    /\ UNCHANGED <<ambientFetch, client>>

\* Unexpected status, the diagnostic read of the body succeeds.
DiagTextFulfilled(i) ==
    /\ calls[i].pc = "awaitDiagText"
    /\ calls' = [calls EXCEPT ![i] =
           [@ EXCEPT !.pc = "done",
                     !.outcome = UnexpectedStatusError(ResponseOf(calls, i),
                                                       ResponseOf(calls, i).body)]]
    /\ UNCHANGED <<ambientFetch, client>>

\* Unexpected status, the diagnostic read fails: catch (_) ignores the error.
DiagTextRejected(i, readError) ==
    /\ calls[i].pc = "awaitDiagText"
    /\ calls' = [calls EXCEPT ![i] =
           [@ EXCEPT !.pc = "done", !.thrown = readError,
                     !.outcome = UnexpectedStatusError(ResponseOf(calls, i), <<>>)]]
    /\ UNCHANGED <<ambientFetch, client>>

\* Expected status, the body is read: empty check, parse, validation, return.
TextFulfilled(i) ==
    /\ calls[i].pc = "awaitText"
    /\ LET r == Interpret(ResponseOf(calls, i).body) IN
       calls' = [calls EXCEPT ![i] =
           [@ EXCEPT !.pc = "done", !.parses = @ + r.parsed, !.outcome = r.outcome]]
    /\ UNCHANGED <<ambientFetch, client>>

\* Expected status, the read of the body fails inside the try block.
TextRejected(i, parseError) ==
    /\ calls[i].pc = "awaitText"
    /\ calls' = [calls EXCEPT ![i] =
           [@ EXCEPT !.pc = "done", !.thrown = parseError,
                     !.outcome = CatchParseError(parseError)]]
    /\ UNCHANGED <<ambientFetch, client>>

\* The invocations of the single-invocation specification.
OneCall == {1}

(* Construction: every configuration, then the first step of an invocation. *)
InitCtor ==
    /\ ambientFetch \in BOOLEAN
    /\ client = NoClient
    /\ calls = [i \in OneCall |-> IdleCall]

NextCtor ==
    \/ \E config \in Configs : Construct(config)
    \/ \E request \in Requests : Invoke(1, request)

SpecCtor == InitCtor /\ [][NextCtor]_vars

\* The configurations of the clients whose invocations are followed.
CallConfigs ==
    { [baseUrl |-> Given(<<"h", "/">>), apiKey |-> Given(<<"k">>), fetch |-> TRUE],
      [baseUrl |-> Given(<<"h">>), apiKey |-> Given(<<"k">>), fetch |-> FALSE] }

(* One invocation on a constructed client, every request and response. *)
Init ==
    /\ ambientFetch = TRUE
    /\ \E config \in CallConfigs : client = Constructed(config, ambientFetch)
    /\ calls = [i \in OneCall |-> IdleCall]

Next ==
    \/ \E request \in Requests : Invoke(1, request)
    \/ \E response \in Responses : FetchFulfilled(1, response)
    \/ \E networkError \in Thrown : FetchRejected(1, networkError)
    \/ DiagTextFulfilled(1)
    \/ \E readError \in Thrown : DiagTextRejected(1, readError)
    \/ TextFulfilled(1)
    \/ \E parseError \in Thrown : TextRejected(1, parseError)

Spec == Init /\ [][Next]_vars

(* Concurrent invocations on one client. *)
ConcRequests == [id : {"a", "b"}, keyword : {"plain"}]

ConcResponses ==
    { Response(200, Obj(TagV2 \o Comma \o IdX \o Comma \o ResultArr)),
      Response(400, Obj(TagV2 \o Comma \o IdX \o Comma \o ErrorObj)),
      Response(200, EmptyBody),
      Response(404, <<B("not"), W, B("json")>>) }

InitConc ==
    /\ ambientFetch = TRUE
    /\ \E config \in CallConfigs : client = Constructed(config, ambientFetch)
    /\ calls = [i \in 1..NumCalls |-> IdleCall]

NextConc ==
    \/ \E i \in 1..NumCalls, request \in ConcRequests : Invoke(i, request)
    \/ \E i \in 1..NumCalls, response \in ConcResponses : FetchFulfilled(i, response)
    \/ \E i \in 1..NumCalls, networkError \in Thrown : FetchRejected(i, networkError)
    \/ \E i \in 1..NumCalls : DiagTextFulfilled(i)
    \/ \E i \in 1..NumCalls, readError \in Thrown : DiagTextRejected(i, readError)
    \/ \E i \in 1..NumCalls : TextFulfilled(i)
    \/ \E i \in 1..NumCalls, parseError \in Thrown : TextRejected(i, parseError)

SpecConc == InitConc /\ [][NextConc]_vars

-----------------------------------------------------------------------------
(* Properties *)

\* the status set the specification names
ContractStatuses == {200, 400, 401, 500, 502, 504}

HttpErrorName == "OdooProxyApiHttpError"
FormatErrorName == "OdooProxyApiFormatError"

Finished(c) == c.pc = "done"
GotResponse(c) == c.response.present
BodyWasRead(c) == Finished(c) /\ GotResponse(c) /\ c.thrown = NoThrow

\* A well-formed envelope, read off the parsed value's own members.
WellFormedEnvelope(v) ==
    /\ v.t = "object"
    /\ \E i \in 1..Len(v.kids) : v.kids[i].k = "jsonrpc" /\ v.kids[i].v = JStr("2.0")
    /\ \E i \in 1..Len(v.kids) : v.kids[i].k = "id"

ErrorBody == Obj(TagV2 \o Comma \o IdX \o Comma \o ErrorObj)
ResultBody == Obj(TagV2 \o Comma \o IdX \o Comma \o ResultArr)

\* the error object {"code": -32600, "message": "bad"} as a value
ErrorValue ==
    JObj(<< [k |-> "code", v |-> JNum("-32600")], [k |-> "message", v |-> JStr("bad")] >>)

\* the envelope {"jsonrpc": "2.0", "id": "x", "result": [1, 2]} as a value
ResultEnvelopeValue ==
    JObj(<< [k |-> "jsonrpc", v |-> JStr("2.0")], [k |-> "id", v |-> JStr("x")],
            [k |-> "result",
             v |-> JArr(<< [k |-> "", v |-> JNum("1")], [k |-> "", v |-> JNum("2")] >>)] >>)

\* C1: whenever the response has a status of the contract set and its body,
\* once read, parses to a well-formed envelope, the invocation returns that
\* envelope and throws nothing, whether or not it carries error or result; the
\* returned error member is the body's error object.
C1_BusinessErrorsReturned ==
    \A i \in DOMAIN calls :
        LET c == calls[i]
            p == JSONparse(c.response.body)
        IN (BodyWasRead(c) /\ c.response.status \in ContractStatuses
                /\ p.ok /\ WellFormedEnvelope(p.val))
           => /\ c.outcome.kind = "returned"
              /\ c.outcome.name = ""
              /\ Get(c.outcome.value, "error") = Get(p.val, "error")
              /\ (c.response.body = ErrorBody
                    => Get(c.outcome.value, "error") = ErrorValue)

C1_Witness ==
    \E i \in DOMAIN calls :
        /\ Finished(calls[i])
        /\ calls[i].response = Response(400, ErrorBody)
        /\ calls[i].outcome.kind = "returned"
        /\ Get(calls[i].outcome.value, "error") = ErrorValue

\* C2: a response whose status is outside the contract set ends the invocation
\* with an OdooProxyApiHttpError carrying the response, its status and its
\* status text; JSON.parse is never called, whatever the body is and whether
\* or not the diagnostic read of the body fails.
C2_UnexpectedStatusIsTransportError ==
    \A i \in DOMAIN calls :
        LET c == calls[i] IN
        (GotResponse(c) /\ c.response.status \notin ContractStatuses)
        => /\ c.parses = 0
           /\ c.outcome.kind # "returned"
           /\ Finished(c)
                => /\ c.outcome.kind = "thrown"
                   /\ c.outcome.name = HttpErrorName
                   /\ c.outcome.response = c.response
                   /\ c.outcome.status = DefNum(c.response.status)
                   /\ c.outcome.statusText = DefStr(c.response.statusText)

C2_Witness ==
    \E i \in DOMAIN calls :
        /\ Finished(calls[i])
        /\ calls[i].response = Response(404, ResultBody)
        /\ calls[i].thrown # NoThrow
        /\ calls[i].outcome.name = HttpErrorName

C4_OutcomeIsEnvelopeOrOneOfTwoErrors ==
    \A i \in DOMAIN calls :
        Finished(calls[i])
        => \/ calls[i].outcome.kind = "returned" /\ calls[i].outcome.name = ""
           \/ /\ calls[i].outcome.kind = "thrown"
              /\ calls[i].outcome.name \in {HttpErrorName, FormatErrorName}

\* C5: when the transport fails before any response exists, the invocation
\* ends with an OdooProxyApiHttpError whose response, status and statusText are
\* undefined, and neither a body read nor JSON.parse has happened.
C5_NetworkFailureIsTransportError ==
    \A i \in DOMAIN calls :
        LET c == calls[i] IN
        (Finished(c) /\ c.fetchLog # <<>> /\ ~GotResponse(c))
        => /\ c.outcome.kind = "thrown"
           /\ c.outcome.name = HttpErrorName
           /\ ~c.outcome.response.present
           /\ c.outcome.status = Undef
           /\ c.outcome.statusText = Undef
           /\ c.textReads = 0
           /\ c.parses = 0

\* C6: for a status of the contract set and a non-empty body that parses, the
\* invocation returns exactly when the parsed value is a well-formed envelope,
\* returns the parsed value itself, and otherwise throws the
\* OdooProxyApiFormatError of an invalid envelope; result and error play no part.
C6_ReturnsIffWellFormed ==
    \A i \in DOMAIN calls :
        LET c == calls[i]
            p == JSONparse(c.response.body)
        IN (BodyWasRead(c) /\ c.response.status \in ContractStatuses
                /\ c.response.body # EmptyBody /\ p.ok)
           => /\ c.outcome.kind = "returned" <=> WellFormedEnvelope(p.val)
              /\ c.outcome.kind = "returned" => c.outcome.value = p.val
              /\ c.response.body = ResultBody => c.outcome.value = ResultEnvelopeValue
              /\ ~WellFormedEnvelope(p.val)
                   => /\ c.outcome.kind = "thrown"
                      /\ c.outcome.name = FormatErrorName
                      /\ c.outcome.message =
                           <<"Invalid JSON-RPC 2.0 response format received from Odoo Proxy API.">>

C6_Witness ==
    \E i \in DOMAIN calls :
        /\ Finished(calls[i])
        /\ calls[i].response = Response(200, Obj(ResultArr \o Comma \o IdX))
        /\ calls[i].outcome.name = FormatErrorName
        /\ calls[i].parses = 1

\* C7: an expected status with an empty body ends the invocation with an
\* OdooProxyApiFormatError whose message carries the empty-body indication,
\* after it has passed through the parse-failure handler; JSON.parse was not
\* called.
C7_EmptyBodyIsFormatError ==
    \A i \in DOMAIN calls :
        LET c == calls[i] IN
        (BodyWasRead(c) /\ c.response.status \in ContractStatuses
            /\ c.response.body = EmptyBody)
        => /\ c.outcome.kind = "thrown"
           /\ c.outcome.name = FormatErrorName
           /\ \E k \in 1..Len(c.outcome.message) :
                  c.outcome.message[k] = "Received empty response body"
           /\ c.outcome.message[1] = "Failed to parse JSON response from Odoo Proxy API: "
           /\ c.parses = 0

C7_Witness ==
    \E i \in DOMAIN calls :
        /\ Finished(calls[i])
        /\ calls[i].response = Response(200, EmptyBody)
        /\ calls[i].thrown = NoThrow
        /\ calls[i].outcome.name = FormatErrorName

\* The outcome of an invocation run alone, from its own request and from what
\* its own transport delivered.
AloneOutcome(c) ==
    IF ~JSONstringify(c.request).ok
    THEN CatchNetworkError(ErrorWith(JSONstringify(c.request).message))
    ELSE IF ~c.response.present THEN CatchNetworkError(c.thrown)
    ELSE IF c.response.status \notin ContractStatuses
    THEN UnexpectedStatusError(c.response,
                               IF c.thrown = NoThrow THEN c.response.body ELSE <<>>)
    ELSE IF c.thrown # NoThrow THEN CatchParseError(c.thrown)
    ELSE Interpret(c.response.body).outcome

\* C8: under every interleaving, a finished invocation's outcome is the one it
\* has when run alone on its own request and transport response, and the
\* instance's baseUrl, apiKey and fetchFn are those construction gave it.
C8_ConcurrentCallsIndependent ==
    /\ \A i \in DOMAIN calls :
           /\ Finished(calls[i]) => calls[i].outcome = AloneOutcome(calls[i])
           /\ ~Finished(calls[i]) => calls[i].outcome = Pending
    /\ client = Constructed(client.config, ambientFetch)

C8_Witness ==
    \E i, j \in DOMAIN calls :
        /\ i # j
        /\ calls[i].request.id # calls[j].request.id
        /\ calls[i].pc = "awaitText"
        /\ Finished(calls[j])
        /\ calls[j].response.present
        /\ calls[i].response # calls[j].response

\* what "exactly one trailing slash removed if present" gives
OneSlashRemoved(s) ==
    IF Len(s) > 0 /\ s[Len(s)] = "/" THEN SubSeq(s, 1, Len(s) - 1) ELSE s

\* C9: construction fails exactly for the configurations whose baseUrl or
\* apiKey is missing or empty, or that supply no fetch where none is ambient;
\* otherwise the stored baseUrl is the supplied one less one trailing slash.
C9_ConstructionContract ==
    client.state # "none"
    => LET cfg == client.config
           bad == \/ ~cfg.baseUrl.present \/ cfg.baseUrl.val = <<>>
                  \/ ~cfg.apiKey.present \/ cfg.apiKey.val = <<>>
                  \/ (~cfg.fetch /\ ~ambientFetch)
       IN /\ client.state = "failed" <=> bad
          /\ client.state = "ok" <=> ~bad
          /\ client.state = "ok"
               => /\ client.baseUrl = OneSlashRemoved(cfg.baseUrl.val)
                  /\ client.apiKey = cfg.apiKey.val
                  /\ cfg.baseUrl.val = <<"h", "/", "/">> => client.baseUrl = <<"h", "/">>
                  /\ cfg.baseUrl.val = <<"h", "/">> => client.baseUrl = <<"h">>
                  /\ cfg.baseUrl.val = <<"/", "h">> => client.baseUrl = <<"/", "h">>

C9_Witness ==
    /\ client.state = "ok"
    /\ client.config.baseUrl.val = <<"h", "/", "/">>
    /\ client.baseUrl = <<"h", "/">>

\* C10: the baseUrl of a constructed client is non-empty, and every URL the
\* transport is called with is a non-empty root followed by "/api/odoo".
C10_EndpointRootNonEmpty ==
    /\ client.state = "ok" => Len(client.baseUrl) > 0
    /\ \A i \in DOMAIN calls : \A k \in 1..Len(calls[i].fetchLog) :
           Len(calls[i].fetchLog[k].url) > Len(ApiPath)

====
